---- MODULE Spec2Model ----
(***************************************************************************)
(* Vehicle Search API (backend/server.js): the three read-only endpoints   *)
(* over the backing file data.json.                                        *)
(*                                                                         *)
(* A JavaScript string is a sequence of one-character strings.  A value    *)
(* that may be NaN is a record [nan, val].  A JSON response is a record    *)
(* with the HTTP status and the body; `keys` is the set of keys the body   *)
(* carries, `dataKind` tells whether `data` is a JSON array ("array"), a   *)
(* single JSON object ("object", held as a one-element sequence, or the    *)
(* empty sequence for a file object that is no vehicle) or absent.         *)
(***************************************************************************)
EXTENDS Integers, Sequences, FiniteSets, TLC

\* the server: the backing file, the request served last and its response,
\* whether serving it logged a store failure
VARIABLES dataFile, req, res, errLogged

\* the server's event queue: requests accepted and not yet served, and the
\* number of requests served
VARIABLES pending, served

\* the client: the mounted page; SearchBar and HomePage state; the route
\* parameter and VehicleDetailPage state; the network calls in flight; the
\* handler that ran last and the outcome of the page's current request
VARIABLES page, searchTerm, pageVehicles, loading, pageError, noResultsMessage,
          routeVrm, detailVehicle, detailLoading, detailError,
          calls, lastEvent, outcome

serverVars == <<dataFile, req, res, errLogged>>

queueVars == <<pending, served>>

clientVars == <<page, searchTerm, pageVehicles, loading, pageError,
                noResultsMessage, routeVrm, detailVehicle, detailLoading,
                detailError, calls, lastEvent, outcome>>

vars == <<serverVars, queueVars, clientVars>>

----------------------------------------------------------------------------
(* Bounds                                                                  *)

\* longest collection held by data.json
MaxVehicles == 2

\* longest generated query / identifier over QueryAlphabet
MaxQueryLen == 2

\* requests accepted by the server in one run of the concurrent server
MaxRequests == 3

\* lookups the detail page can have in flight at once
MaxCalls == 2

----------------------------------------------------------------------------
(* Strings                                                                 *)

UpperLetters == <<"A","B","C","D","E","F","G","H","I","J","K","L","M",
                  "N","O","P","Q","R","S","T","U","V","W","X","Y","Z">>

LowerLetters == <<"a","b","c","d","e","f","g","h","i","j","k","l","m",
                  "n","o","p","q","r","s","t","u","v","w","x","y","z">>

IndexIn(c, table) == CHOOSE i \in 1..Len(table) : table[i] = c

IsUpperChar(c) == \E i \in 1..Len(UpperLetters) : UpperLetters[i] = c

IsLowerChar(c) == \E i \in 1..Len(LowerLetters) : LowerLetters[i] = c

toLowerChar(c) == IF IsUpperChar(c) THEN LowerLetters[IndexIn(c, UpperLetters)] ELSE c

toUpperChar(c) == IF IsLowerChar(c) THEN UpperLetters[IndexIn(c, LowerLetters)] ELSE c

\* String.prototype.toLowerCase
toLowerCase(s) == [i \in 1..Len(s) |-> toLowerChar(s[i])]

\* String.prototype.toUpperCase
toUpperCase(s) == [i \in 1..Len(s) |-> toUpperChar(s[i])]

\* String.prototype.includes: needle occurs in hay as a contiguous substring
includes(hay, needle) ==
    \E k \in 0..(Len(hay) - Len(needle)) :
        \A i \in 1..Len(needle) : hay[k + i] = needle[i]

\* String.prototype.trim (the white space of the model is the blank)
IsSpace(c) == c = " "

RECURSIVE trimStart(_)
trimStart(s) == IF s # <<>> /\ IsSpace(Head(s)) THEN trimStart(Tail(s)) ELSE s

RECURSIVE trimEnd(_)
trimEnd(s) ==
    IF s # <<>> /\ IsSpace(s[Len(s)]) THEN trimEnd(SubSeq(s, 1, Len(s) - 1)) ELSE s

trim(s) == trimEnd(trimStart(s))

----------------------------------------------------------------------------
(* Numbers: Number(string) as used by isNaN, and parseInt(string)          *)

DecDigits == <<"0","1","2","3","4","5","6","7","8","9">>

HexDigits == DecDigits \o <<"a","b","c","d","e","f">>

IsDigitOf(c, digits) == \E i \in 1..Len(digits) : digits[i] = c

DigitValue(c) ==
    LET lc == toLowerChar(c) IN (CHOOSE i \in 1..Len(HexDigits) : HexDigits[i] = lc) - 1

AllDigitsOf(s, digits) == \A i \in 1..Len(s) : IsDigitOf(s[i], digits)

\* the longest prefix of s made of digits of the radix
RECURSIVE DigitPrefix(_, _)
DigitPrefix(s, digits) ==
    IF s # <<>> /\ IsDigitOf(Head(s), digits)
    THEN <<Head(s)>> \o DigitPrefix(Tail(s), digits)
    ELSE <<>>

RECURSIVE DigitsValue(_, _)
DigitsValue(s, radix) ==
    IF s = <<>> THEN 0
    ELSE DigitsValue(SubSeq(s, 1, Len(s) - 1), radix) * radix + DigitValue(s[Len(s)])

NaN == [nan |-> TRUE, val |-> 0]

Num(n) == [nan |-> FALSE, val |-> n]

HasPrefix(s, p) == Len(s) >= Len(p) /\ SubSeq(s, 1, Len(p)) = p

DropN(s, n) == SubSeq(s, n + 1, Len(s))

IsSign(c) == c = "+" \/ c = "-"

\* ExponentPart opt: nothing, or e/E, an optional sign and at least one digit
IsExponentOpt(s) ==
    \/ s = <<>>
    \/ /\ Len(s) >= 2
       /\ s[1] \in {"e", "E"}
       /\ LET r == IF IsSign(s[2]) THEN DropN(s, 2) ELSE DropN(s, 1)
          IN  r # <<>> /\ AllDigitsOf(r, DecDigits)

\* StrUnsignedDecimalLiteral: digits [. digits] [exp]  |  . digits [exp]
IsUnsignedDecimal(s) ==
    LET ip   == DigitPrefix(s, DecDigits)
        r1   == DropN(s, Len(ip))
        dot  == r1 # <<>> /\ Head(r1) = "."
        r2   == IF dot THEN Tail(r1) ELSE r1
        fp   == IF dot THEN DigitPrefix(r2, DecDigits) ELSE <<>>
        r3   == DropN(r2, Len(fp))
    IN  /\ (ip # <<>> \/ fp # <<>>)
        /\ IsExponentOpt(r3)

InfinityLiteral == <<"I","n","f","i","n","i","t","y">>

\* isNaN(string): Number(string) is NaN.  StringToNumber trims white space,
\* maps the empty string to 0 and otherwise wants a StrNumericLiteral.
isNaN(s) ==
    LET t    == trim(s)
        body == IF t # <<>> /\ IsSign(Head(t)) THEN Tail(t) ELSE t
        radixLiteral(p1, p2, digits) ==
            /\ (HasPrefix(t, p1) \/ HasPrefix(t, p2))
            /\ Len(t) > 2
            /\ AllDigitsOf(DropN(t, 2), digits)
    IN  ~ \/ t = <<>>
          \/ body = InfinityLiteral
          \/ IsUnsignedDecimal(body)
          \/ radixLiteral(<<"0","x">>, <<"0","X">>, HexDigits)
          \/ radixLiteral(<<"0","o">>, <<"0","O">>, <<"0","1","2","3","4","5","6","7">>)
          \/ radixLiteral(<<"0","b">>, <<"0","B">>, <<"0","1">>)

\* parseInt(string) with no radix: white space, sign, 0x prefix, then the
\* longest digit prefix; NaN when that prefix is empty
parseInt(s) ==
    LET t      == trimStart(s)
        neg    == t # <<>> /\ Head(t) = "-"
        body   == IF t # <<>> /\ IsSign(Head(t)) THEN Tail(t) ELSE t
        hex    == HasPrefix(body, <<"0","x">>) \/ HasPrefix(body, <<"0","X">>)
        digs   == IF hex THEN DigitPrefix(DropN(body, 2), HexDigits)
                         ELSE DigitPrefix(body, DecDigits)
        mag    == DigitsValue(digs, IF hex THEN 16 ELSE 10)
    IN  IF digs = <<>> THEN NaN ELSE Num(IF neg THEN 0 - mag ELSE mag)

Abs(n) == IF n < 0 THEN 0 - n ELSE n

----------------------------------------------------------------------------
(* Vehicles and the backing file                                           *)

\* A record of data.json.  `absent` names the string properties the record
\* lacks (reading one yields undefined; calling a method on it throws).
Vehicle(vrm, make, model, variant, colour, body, price, mileage, date, absent) ==
    [VRM |-> vrm, Make |-> make, Model |-> model, Variant |-> variant,
     Colour |-> colour, BodyType |-> body, Price |-> price, Mileage |-> mileage,
     DateOfRegistration |-> date, absent |-> absent]

V1 ==
    Vehicle(<<"A","B","1","2">>, <<"B","M","W">>, <<"3"," ","S">>,
            <<"M">>, <<"B","l","u","e">>, <<"S","U","V">>,
            12995, 30000, <<"2","0","1","9","-","0","3","-","1","5","T","0","0">>, {})

V2 ==
    Vehicle(<<"a","b","1","2">>, <<"F","o","r","d">>, <<"F","o","c","u","s">>,
            <<"1",".","5">>, <<"R","e","d">>, <<"H","a","t","c","h">>,
            10000, 45200, <<"2","0","2","0","-","0","1","-","0","2">>, {})

V3 ==
    Vehicle(<<"X","Y","9">>, <<"V","W">>, <<"G","o","l","f">>,
            <<"e">>, <<"B","l","u","e">>, <<"H","a","t","c","h">>,
            500, 12, <<"2","0","2","1","-","1","2","-","0","5">>, {})

V4 ==
    Vehicle(<<"C","D","3">>, <<"B","M","W">>, <<"X","1">>,
            <<"S">>, <<>>, <<"S","U","V">>,
            12000, 500, <<"2","0","1","8","-","0","6","-","0","1">>, {"Colour"})

V5 ==
    Vehicle(<<>>, <<"F","o","r","d">>, <<"K","a">>,
            <<"S">>, <<"R","e","d">>, <<"H","a","t","c","h">>,
            9000, 100, <<"2","0","1","7","-","0","1","-","0","1">>, {"VRM"})

\* the records a collection is built from; V4 and V5 lack a property
Catalogue == {V1, V2, V3, V4, V5}

\* all properties present (the data model's integrity assumption)
WellFormed(v) == v.absent = {}

RECURSIVE SeqsUpTo(_, _)
SeqsUpTo(S, n) ==
    IF n = 0 THEN {<<>>}
    ELSE LET shorter == SeqsUpTo(S, n - 1)
         IN  shorter \cup {Append(s, x) : s \in {t \in shorter : Len(t) = n - 1}, x \in S}

Collections == SeqsUpTo(Catalogue, MaxVehicles)

\* What data.json can be: absent, unreadable, not JSON, a JSON array of
\* records, the JSON value null, or a JSON object that is no array.
FileKinds == {"missing", "unreadable", "corrupt", "array", "null", "object"}

File(kind, items) == [kind |-> kind, items |-> items]

Files ==
    {File("array", c) : c \in Collections}
        \cup {File(k, <<>>) : k \in FileKinds \ {"array"}}

\* readFileSync or JSON.parse throws on such a file
LoadFails(file) == file.kind \in {"missing", "unreadable", "corrupt"}

\* the failure handed on to the caller instead of the empty array
getVehiclesData_NoFallback(file) ==
    IF LoadFails(file)
    THEN [kind |-> "null", items |-> <<>>, logged |-> TRUE]
    ELSE [kind |-> file.kind, items |-> file.items, logged |-> FALSE]

\* getVehiclesData: the parsed content, [] when reading or parsing throws
\* (the error is logged, never rethrown)
getVehiclesData(file) ==
    IF LoadFails(file)
    THEN [kind |-> "array", items |-> <<>>, logged |-> TRUE]
    ELSE [kind |-> file.kind, items |-> file.items, logged |-> FALSE]

----------------------------------------------------------------------------
(* Requests and responses                                                  *)

QueryAlphabet == {"b", "B"}

ExampleQueries ==
    {<<" ">>,
     <<"b","m","w">>,
     <<"B","M","W">>,
     <<"1","2","0","0","0">>,
     <<"1","0","0","0","0">>,
     <<"1","3","9","9","5">>,
     <<"1","2",".","5">>,
     <<"1","e","3">>,
     <<"a","b","1","2">>,
     <<"A","B","1","2">>,
     <<"x","y","z">>,
     <<"T","0","0">>,
     <<"t","0","0">>,
     <<"2","0","1","9">>,
     <<"5","0","0">>,
     <<" ","1","2">>,
     <<"X","Y","9">>}

Queries == SeqsUpTo(QueryAlphabet, MaxQueryLen) \cup ExampleQueries

\* req.body.query: absent from the body, or a string
Query(present, str) == [present |-> present, str |-> str]

QueryInputs == {Query(TRUE, q) : q \in Queries} \cup {Query(FALSE, <<>>)}

\* the :vrm route parameter is a non-empty string
Identifiers == Queries \ {<<>>}

NoMessage == <<"", <<>>>>

\* `message` is <<text, interpolated string>>; `error` is error.message
Response(status, success, keys, count, dataKind, data, message, error) ==
    [status |-> status, success |-> success, keys |-> keys, count |-> count,
     dataKind |-> dataKind, data |-> data, message |-> message, error |-> error]

NoResponse == Response(0, FALSE, {}, 0, "none", <<>>, NoMessage, "")

ServerError(text) ==
    Response(500, FALSE, {"success", "message", "error"}, 0, "none", <<>>,
             <<text, <<>>>>, "TypeError")

----------------------------------------------------------------------------
(* GET /api/vehicles                                                       *)

\* the count taken one short of the array's length
ListResponse_CountOff(file) ==
    LET vehicles == getVehiclesData(file)
    IN  CASE vehicles.kind = "null" ->
                ServerError("Error fetching vehicles")
          [] vehicles.kind = "object" ->
                Response(200, TRUE, {"success", "data"}, 0, "object", <<>>,
                         NoMessage, "")
          [] OTHER ->
                Response(200, TRUE, {"success", "count", "data"},
                         Len(vehicles.items) - 1, "array", vehicles.items,
                         NoMessage, "")

\* vehicles.length throws on null; on an object that is no array it is
\* undefined and JSON drops the count key
ListResponse(file) ==
    LET vehicles == getVehiclesData(file)
    IN  CASE vehicles.kind = "null" ->
                ServerError("Error fetching vehicles")
          [] vehicles.kind = "object" ->
                Response(200, TRUE, {"success", "data"}, 0, "object", <<>>,
                         NoMessage, "")
          [] OTHER ->
                Response(200, TRUE, {"success", "count", "data"},
                         Len(vehicles.items), "array", vehicles.items,
                         NoMessage, "")

----------------------------------------------------------------------------
(* GET /api/vehicles/vrm/:vrm                                              *)

\* the record's VRM compared without upper-casing it
VrmEquals_RawVrm(v, vrm) ==
    IF "VRM" \in v.absent THEN "throw"
    ELSE IF v.VRM = vrm THEN "true" ELSE "false"

\* v.VRM.toUpperCase() === vrm; "throw" when the record has no VRM
VrmEquals(v, vrm) ==
    IF "VRM" \in v.absent THEN "throw"
    ELSE IF toUpperCase(v.VRM) = vrm THEN "true" ELSE "false"

\* Array.prototype.find from position i: the first record the callback
\* accepts, in collection order; the callback's throw ends the scan
RECURSIVE find(_, _, _)
find(items, vrm, i) ==
    IF i > Len(items) THEN [outcome |-> "undefined", at |-> 0]
    ELSE LET t == VrmEquals(items[i], vrm)
         IN  CASE t = "throw" -> [outcome |-> "throw", at |-> i]
               [] t = "true"  -> [outcome |-> "found", at |-> i]
               [] OTHER       -> find(items, vrm, i + 1)

\* the absent vehicle sent as a success without testing it
LookupResponse_NoNotFound(file, ident) ==
    LET vrm      == toUpperCase(ident)
        vehicles == getVehiclesData(file)
        vehicle  == find(vehicles.items, vrm, 1)
    IN  CASE vehicles.kind # "array" \/ vehicle.outcome = "throw" ->
                ServerError("Error fetching vehicle")
          [] vehicle.outcome = "found" ->
                Response(200, TRUE, {"success", "data"}, 0, "object",
                         <<vehicles.items[vehicle.at]>>, NoMessage, "")
          [] OTHER ->
                Response(200, TRUE, {"success"}, 0, "none", <<>>, NoMessage, "")

LookupResponse(file, ident) ==
    LET vrm      == toUpperCase(ident)
        vehicles == getVehiclesData(file)
        vehicle  == find(vehicles.items, vrm, 1)
    IN  CASE vehicles.kind # "array" \/ vehicle.outcome = "throw" ->
                ServerError("Error fetching vehicle")
          [] vehicle.outcome = "found" ->
                Response(200, TRUE, {"success", "data"}, 0, "object",
                         <<vehicles.items[vehicle.at]>>, NoMessage, "")
          [] OTHER ->
                Response(404, FALSE, {"success", "message"}, 0, "none", <<>>,
                         <<"No vehicle found with VRM: ", vrm>>, "")

----------------------------------------------------------------------------
(* POST /api/vehicles/search                                               *)

\* tolerance of the price range match
PriceWindow == 1000

\* the properties matched by lower-cased substring, in the order tested
TextFields == <<"VRM", "Make", "Model", "Variant", "Colour", "BodyType">>

\* vehicle[f].toLowerCase().includes(query) for the text fields from the
\* i-th on: "true" at the first hit, "throw" at the first absent property
\* reached, "next" when none matched
RECURSIVE TextChecks(_, _, _)
TextChecks(vehicle, query, i) ==
    IF i > Len(TextFields) THEN "next"
    ELSE LET f == TextFields[i]
         IN  IF f \in vehicle.absent THEN "throw"
             ELSE IF includes(toLowerCase(vehicle[f]), query) THEN "true"
             ELSE TextChecks(vehicle, query, i + 1)

\* !isNaN(query) && vehicle.Price === parseInt(query)
PriceCheck(vehicle, query) ==
    /\ ~isNaN(query)
    /\ ~parseInt(query).nan
    /\ vehicle.Price = parseInt(query).val

\* !isNaN(query) && vehicle.Mileage === parseInt(query)
MileageCheck(vehicle, query) ==
    /\ ~isNaN(query)
    /\ ~parseInt(query).nan
    /\ vehicle.Mileage = parseInt(query).val

\* the window taken exclusive of its bound
PriceRangeCheck_Exclusive(vehicle, query) ==
    /\ ~isNaN(query)
    /\ LET numQuery == parseInt(query)
       IN  ~numQuery.nan /\ Abs(vehicle.Price - numQuery.val) < PriceWindow

\* !isNaN(query) and Math.abs(vehicle.Price - numQuery) <= 1000
\* (a comparison with NaN is false)
PriceRangeCheck(vehicle, query) ==
    /\ ~isNaN(query)
    /\ LET numQuery == parseInt(query)
       IN  ~numQuery.nan /\ Abs(vehicle.Price - numQuery.val) <= PriceWindow

\* vehicle.DateOfRegistration.includes(query): the date is not lower-cased
DateCheck(vehicle, query) == includes(vehicle.DateOfRegistration, query)

\* the filter callback: "true", "false" or "throw"
FilterPredicate(vehicle, query) ==
    LET t == TextChecks(vehicle, query, 1)
    IN  CASE t # "next" -> t
          [] PriceCheck(vehicle, query) -> "true"
          [] MileageCheck(vehicle, query) -> "true"
          [] PriceRangeCheck(vehicle, query) -> "true"
          [] "DateOfRegistration" \in vehicle.absent -> "throw"
          [] DateCheck(vehicle, query) -> "true"
          [] OTHER -> "false"

\* the accepted records collected in reverse order
RECURSIVE filter_Reversed(_, _)
filter_Reversed(items, query) ==
    IF items = <<>> THEN <<>>
    ELSE IF FilterPredicate(Head(items), query) = "true"
         THEN filter_Reversed(Tail(items), query) \o <<Head(items)>>
         ELSE filter_Reversed(Tail(items), query)

\* Array.prototype.filter: the accepted records in collection order
RECURSIVE filter(_, _)
filter(items, query) ==
    IF items = <<>> THEN <<>>
    ELSE IF FilterPredicate(Head(items), query) = "true"
         THEN <<Head(items)>> \o filter(Tail(items), query)
         ELSE filter(Tail(items), query)

\* the callback throws on some record: filter visits every record
FilterThrows(items, query) ==
    \E i \in 1..Len(items) : FilterPredicate(items[i], query) = "throw"

\* !searchQuery: undefined or the empty string
QueryRejected(q) == ~q.present \/ q.str = <<>>

\* the query used without lower-casing it
NormalizeQuery_KeepCase(searchQuery) == searchQuery

\* searchQuery.toString().toLowerCase()
NormalizeQuery(searchQuery) == toLowerCase(searchQuery)

\* whether the handler gets as far as reading the store
SearchLoads(q) == ~QueryRejected(q)

\* the matches sent as a success without testing for the empty list
SearchResponse_EmptySuccess(file, q) ==
    IF QueryRejected(q)
    THEN Response(400, FALSE, {"success", "message"}, 0, "none", <<>>,
                  <<"Search query is required", <<>>>>, "")
    ELSE LET vehicles         == getVehiclesData(file)
             query            == NormalizeQuery(q.str)
             matchingVehicles == filter(vehicles.items, query)
         IN  CASE vehicles.kind # "array" \/ FilterThrows(vehicles.items, query) ->
                     ServerError("Error searching vehicles")
               [] OTHER ->
                     Response(200, TRUE, {"success", "count", "data"},
                              Len(matchingVehicles), "array", matchingVehicles,
                              NoMessage, "")

SearchResponse(file, q) ==
    IF QueryRejected(q)
    THEN Response(400, FALSE, {"success", "message"}, 0, "none", <<>>,
                  <<"Search query is required", <<>>>>, "")
    ELSE LET vehicles         == getVehiclesData(file)
             query            == NormalizeQuery(q.str)
             matchingVehicles == filter(vehicles.items, query)
         IN  CASE vehicles.kind # "array" \/ FilterThrows(vehicles.items, query) ->
                     ServerError("Error searching vehicles")
               [] Len(matchingVehicles) > 0 ->
                     Response(200, TRUE, {"success", "count", "data"},
                              Len(matchingVehicles), "array", matchingVehicles,
                              NoMessage, "")
               [] OTHER ->
                     Response(404, FALSE, {"success", "message", "data"}, 0,
                              "array", <<>>,
                              <<"No vehicles found matching: ", q.str>>, "")

----------------------------------------------------------------------------
(* The server as a state machine: data.json is fixed, each step serves one *)
(* request and leaves its response in `res`.                               *)

Request(op, arg) == [op |-> op, arg |-> arg]

\* the server after start-up: nothing accepted, nothing served
ServerInit ==
    /\ req = Request("none", Query(FALSE, <<>>))
    /\ res = NoResponse
    /\ errLogged = FALSE
    /\ pending = {}
    /\ served = 0

\* useState initial values of SearchBar and HomePage, mounted at "/"
HomeMounted ==
    /\ page = "home"
    /\ searchTerm = <<>>
    /\ pageVehicles = <<>>
    /\ loading = FALSE
    /\ pageError = NoMessage
    /\ noResultsMessage = NoMessage

\* VehicleDetailPage is not mounted
DetailUnmounted ==
    /\ routeVrm = <<>>
    /\ detailVehicle = <<>>
    /\ detailLoading = FALSE
    /\ detailError = NoMessage

ClientInit ==
    /\ HomeMounted
    /\ DetailUnmounted
    /\ calls = <<>>
    /\ lastEvent = "mount"
    /\ outcome = "none"

Init ==
    /\ dataFile \in Files
    /\ ServerInit
    /\ ClientInit

GetVehicles ==
    /\ req' = Request("list", Query(FALSE, <<>>))
    /\ res' = ListResponse(dataFile)
    /\ errLogged' = getVehiclesData(dataFile).logged
    /\ UNCHANGED dataFile

GetVehicleByVrm ==
    \E ident \in Identifiers :
        /\ req' = Request("lookup", Query(TRUE, ident))
        /\ res' = LookupResponse(dataFile, ident)
        /\ errLogged' = getVehiclesData(dataFile).logged
        /\ UNCHANGED dataFile

PostSearch_KeepsMatches ==
    \E q \in QueryInputs :
        /\ req' = Request("search", q)
        /\ res' = SearchResponse(dataFile, q)
        /\ errLogged' = (SearchLoads(q) /\ getVehiclesData(dataFile).logged)
        /\ dataFile' = IF res'.status = 200 /\ res'.count > 0
                       THEN File("array", res'.data)
                       ELSE dataFile

PostSearch ==
    \E q \in QueryInputs :
        /\ req' = Request("search", q)
        /\ res' = SearchResponse(dataFile, q)
        /\ errLogged' = (SearchLoads(q) /\ getVehiclesData(dataFile).logged)
        /\ UNCHANGED dataFile

\* express.json() cannot parse the request body: the middleware passes the
\* error on, no route handler runs, and the framework's default error
\* handler answers with the error's status (400) and an HTML page, which
\* carries none of the keys of the JSON envelope
MalformedBodyResponse ==
    Response(400, FALSE, {}, 0, "none", <<>>, <<"SyntaxError", <<>>>>, "")

PostMalformedBody ==
    /\ req' = Request("malformed", Query(FALSE, <<>>))
    /\ res' = MalformedBodyResponse
    /\ errLogged' = FALSE
    /\ UNCHANGED dataFile

\* a request arrives and is served at once; the client is not modelled
Next ==
    \/ GetVehicles /\ UNCHANGED <<queueVars, clientVars>>
    \/ GetVehicleByVrm /\ UNCHANGED <<queueVars, clientVars>>
    \/ PostSearch /\ UNCHANGED <<queueVars, clientVars>>
    \/ PostMalformedBody /\ UNCHANGED <<queueVars, clientVars>>

Spec == Init /\ [][Next]_vars

----------------------------------------------------------------------------
(* The server under concurrent load: requests are accepted while others    *)
(* wait; every handler is synchronous (readFileSync, no await), so the     *)
(* event loop runs one handler to completion before it starts the next.    *)

LoadRequests ==
    {Request("list", Query(FALSE, <<>>)),
     Request("lookup", Query(TRUE, <<"a","b","1","2">>)),
     Request("search", Query(TRUE, <<"b","m","w">>)),
     Request("search", Query(FALSE, <<>>)),
     Request("malformed", Query(FALSE, <<>>))}

\* app.listen: a request arrives and waits for the event loop
Accept ==
    \E r \in LoadRequests :
        /\ served + Cardinality(pending) < MaxRequests
        /\ r \notin pending
        /\ pending' = pending \cup {r}
        /\ UNCHANGED <<serverVars, served, clientVars>>

\* the event loop takes one waiting request, in any order, and runs the
\* handler of its route
Serve ==
    \E r \in pending :
        /\ req' = r
        /\ \/ GetVehicles
           \/ GetVehicleByVrm
           \/ PostSearch
           \/ PostMalformedBody
        /\ pending' = pending \ {r}
        /\ served' = served + 1
        /\ UNCHANGED clientVars

NextLoad == Accept \/ Serve

SpecLoad == Init /\ [][NextLoad]_vars

----------------------------------------------------------------------------
(* The client: HomePage with its SearchBar and VehicleGrid, and            *)
(* VehicleDetailPage, in front of the server.  A handler runs to its first *)
(* await in one step; when the call settles, the rest of the handler       *)
(* (then/else, catch, finally) runs in one step and React 18 renders the   *)
(* batched state once.  A call that resolves is served by the server in    *)
(* the step that settles it; a call that rejects never reaches a handler.  *)

\* data.json under the pages
PageFiles ==
    {File("array", <<V1, V3>>), File("array", <<>>),
     File("missing", <<>>), File("null", <<>>)}

\* what the user types into the search input
Terms == {<<>>, <<" ">>, <<"b","m","w">>, <<"x","y","z">>}

\* identifiers the user reaches /vehicle/:vrm with, besides clicking a card
RouteVrms == {<<"a","b","1","2">>, <<"x","y","z">>}

PleaseEnterTerm == <<"Please enter a search term", <<>>>>

SearchFailed ==
    <<"Failed to search vehicles. Please ensure the backend server is running on port 5000.", <<>>>>

FetchAllRefused == <<"Failed to fetch vehicles", <<>>>>

FetchAllFailed ==
    <<"Failed to fetch vehicles. Please ensure the backend server is running on port 5000.", <<>>>>

FetchDetailsFailed ==
    <<"Failed to fetch vehicle details. Please ensure the backend server is running.", <<>>>>

\* data.message || fallback
MessageOr(message, fallback) ==
    IF message = NoMessage THEN <<fallback, <<>>>> ELSE message

\* a fetch in flight
Call(kind, arg) == [kind |-> kind, arg |-> arg]

RemoveAt(seq, i) == SubSeq(seq, 1, i - 1) \o SubSeq(seq, i + 1, Len(seq))

\* how the server answered, as the claims speak of it
Answer(response) ==
    CASE response.status = 200 -> "ok"
      [] response.status = 404 -> "notfound"
      [] response.status = 400 -> "rejected"
      [] OTHER                 -> "servererror"

InitApp ==
    /\ dataFile \in PageFiles
    /\ ServerInit
    /\ ClientInit

\* SearchBar.handleInputChange; the input is disabled while loading
handleInputChange ==
    \E value \in Terms :
        /\ page = "home"
        /\ ~loading
        /\ value # searchTerm
        /\ searchTerm' = value
        /\ lastEvent' = "input"
        /\ UNCHANGED <<pageVehicles, loading, pageError, noResultsMessage,
                       routeVrm, detailVehicle, detailLoading, detailError,
                       calls, outcome>>

\* HomePage.handleSearch up to the await of fetch
handleSearch_NoTrim(searchQuery) ==
    IF searchQuery = <<>>
    THEN /\ pageError' = PleaseEnterTerm
         /\ pageVehicles' = <<>>
         /\ noResultsMessage' = NoMessage
         /\ lastEvent' = "blank"
         /\ UNCHANGED <<loading, calls, outcome>>
    ELSE /\ loading' = TRUE
         /\ pageError' = NoMessage
         /\ noResultsMessage' = NoMessage
         /\ pageVehicles' = <<>>
         /\ calls' = Append(calls, Call("search", searchQuery))
         /\ outcome' = "pending"
         /\ lastEvent' = "search"

handleSearch(searchQuery) ==
    IF searchQuery = <<>> \/ trim(searchQuery) = <<>>
    THEN /\ pageError' = PleaseEnterTerm
         /\ pageVehicles' = <<>>
         /\ noResultsMessage' = NoMessage
         /\ lastEvent' = "blank"
         /\ UNCHANGED <<loading, calls, outcome>>
    ELSE /\ loading' = TRUE
         /\ pageError' = NoMessage
         /\ noResultsMessage' = NoMessage
         /\ pageVehicles' = <<>>
         /\ calls' = Append(calls, Call("search", searchQuery))
         /\ outcome' = "pending"
         /\ lastEvent' = "search"

\* SearchBar.handleSubmit: the form hands the typed term to onSearch; the
\* input and the submit button are disabled while loading
handleSubmit ==
    /\ page = "home"
    /\ ~loading
    /\ handleSearch(searchTerm)
    /\ UNCHANGED <<searchTerm, routeVrm, detailVehicle, detailLoading,
                   detailError>>

\* HomePage.handleSearch after the awaits: the server answered
SearchResolved ==
    /\ page = "home"
    /\ calls # <<>>
    /\ calls[1].kind = "search"
    /\ req' = Request("search", Query(TRUE, calls[1].arg))
    /\ PostSearch
    /\ IF res'.success
       THEN /\ pageVehicles' = res'.data
            /\ noResultsMessage' =
                   IF Len(res'.data) = 0
                   THEN <<"No vehicles found matching (quoted): ", calls[1].arg>>
                   ELSE noResultsMessage
       ELSE /\ noResultsMessage' = MessageOr(res'.message, "No vehicles found")
            /\ UNCHANGED pageVehicles
    /\ loading' = FALSE
    /\ calls' = Tail(calls)
    /\ outcome' = Answer(res')
    /\ lastEvent' = "searchDone"
    /\ UNCHANGED <<searchTerm, pageError, routeVrm, detailVehicle,
                   detailLoading, detailError>>

\* HomePage.handleSearch: fetch rejects (the server cannot be reached)
SearchRejected ==
    /\ page = "home"
    /\ calls # <<>>
    /\ calls[1].kind = "search"
    /\ pageError' = SearchFailed
    /\ loading' = FALSE
    /\ calls' = Tail(calls)
    /\ outcome' = "failed"
    /\ lastEvent' = "searchDone"
    /\ UNCHANGED <<serverVars, searchTerm, pageVehicles, noResultsMessage,
                   routeVrm, detailVehicle, detailLoading, detailError>>

handleViewAllVehicles_NoLoading ==
    /\ page = "home"
    /\ ~loading
    /\ loading' = loading
    /\ pageError' = NoMessage
    /\ noResultsMessage' = NoMessage
    /\ calls' = Append(calls, Call("list", <<>>))
    /\ outcome' = "pending"
    /\ lastEvent' = "viewAll"
    /\ UNCHANGED <<searchTerm, pageVehicles, routeVrm, detailVehicle,
                   detailLoading, detailError>>

\* HomePage.handleViewAllVehicles up to the await of fetch; the button is
\* disabled while loading
handleViewAllVehicles ==
    /\ page = "home"
    /\ ~loading
    /\ loading' = TRUE
    /\ pageError' = NoMessage
    /\ noResultsMessage' = NoMessage
    /\ calls' = Append(calls, Call("list", <<>>))
    /\ outcome' = "pending"
    /\ lastEvent' = "viewAll"
    /\ UNCHANGED <<searchTerm, pageVehicles, routeVrm, detailVehicle,
                   detailLoading, detailError>>

ViewAllResolved ==
    /\ page = "home"
    /\ calls # <<>>
    /\ calls[1].kind = "list"
    /\ GetVehicles
    /\ IF res'.success
       THEN pageVehicles' = res'.data /\ UNCHANGED pageError
       ELSE pageError' = FetchAllRefused /\ UNCHANGED pageVehicles
    /\ loading' = FALSE
    /\ calls' = Tail(calls)
    /\ outcome' = Answer(res')
    /\ lastEvent' = "viewAllDone"
    /\ UNCHANGED <<searchTerm, noResultsMessage, routeVrm, detailVehicle,
                   detailLoading, detailError>>

ViewAllRejected ==
    /\ page = "home"
    /\ calls # <<>>
    /\ calls[1].kind = "list"
    /\ pageError' = FetchAllFailed
    /\ loading' = FALSE
    /\ calls' = Tail(calls)
    /\ outcome' = "failed"
    /\ lastEvent' = "viewAllDone"
    /\ UNCHANGED <<serverVars, searchTerm, pageVehicles, noResultsMessage,
                   routeVrm, detailVehicle, detailLoading, detailError>>

\* the grid is rendered
GridShown == page = "home" /\ ~loading /\ Len(pageVehicles) > 0

\* VehicleDetailPage mounts at /vehicle/:vrm with its useState initial values
\* and its effect starts fetchVehicleDetails; HomePage unmounts
MountDetail(id) ==
    /\ page' = "detail"
    /\ routeVrm' = id
    /\ detailVehicle' = <<>>
    /\ detailError' = NoMessage
    /\ detailLoading' = TRUE
    /\ calls' = <<Call("lookup", id)>>
    /\ outcome' = "pending"
    /\ searchTerm' = <<>>
    /\ pageVehicles' = <<>>
    /\ loading' = FALSE
    /\ pageError' = NoMessage
    /\ noResultsMessage' = NoMessage

\* VehicleCard onClick -> HomePage.handleVehicleClick -> navigate
handleVehicleClick ==
    \E i \in 1..Len(pageVehicles) :
        /\ GridShown
        /\ MountDetail(pageVehicles[i].VRM)
        /\ lastEvent' = "click"
        /\ UNCHANGED serverVars

\* the browser opens /vehicle/:vrm (address bar, bookmark, reload): the
\* application starts on the detail page and earlier calls are gone
OpenDetail ==
    \E id \in RouteVrms :
        /\ page = "home"
        /\ MountDetail(id)
        /\ lastEvent' = "open"
        /\ UNCHANGED serverVars

\* the route parameter changes under the mounted page (history traversal
\* between two /vehicle/:vrm entries): the [vrm] effect runs again and
\* starts another fetch; nothing cancels the one in flight and no state
\* but loading is reset
RouteChange ==
    \E id \in RouteVrms :
        /\ page = "detail"
        /\ id # routeVrm
        /\ Len(calls) < MaxCalls
        /\ routeVrm' = id
        /\ detailLoading' = TRUE
        /\ calls' = Append(calls, Call("lookup", id))
        /\ outcome' = "pending"
        /\ lastEvent' = "route"
        /\ UNCHANGED <<serverVars, page, searchTerm, pageVehicles, loading,
                       pageError, noResultsMessage, detailVehicle, detailError>>

\* the fetch of the current identifier is the one started last, until it
\* has settled
IsCurrent(i) == outcome = "pending" /\ i = Len(calls)

\* fetchVehicleDetails after the awaits, for any fetch in flight
FetchResolved ==
    \E i \in 1..Len(calls) :
        /\ page = "detail"
        /\ req' = Request("lookup", Query(TRUE, calls[i].arg))
        /\ GetVehicleByVrm
        /\ IF res'.success
           THEN detailVehicle' = res'.data[1] /\ UNCHANGED detailError
           ELSE /\ detailError' = MessageOr(res'.message, "Vehicle not found")
                /\ UNCHANGED detailVehicle
        /\ detailLoading' = FALSE
        /\ calls' = RemoveAt(calls, i)
        /\ outcome' = IF IsCurrent(i) THEN Answer(res') ELSE outcome
        /\ lastEvent' = "fetchDone"
        /\ UNCHANGED <<page, searchTerm, pageVehicles, loading, pageError,
                       noResultsMessage, routeVrm>>

FetchRejected ==
    \E i \in 1..Len(calls) :
        /\ page = "detail"
        /\ detailError' = FetchDetailsFailed
        /\ detailLoading' = FALSE
        /\ calls' = RemoveAt(calls, i)
        /\ outcome' = IF IsCurrent(i) THEN "failed" ELSE outcome
        /\ lastEvent' = "fetchDone"
        /\ UNCHANGED <<serverVars, page, searchTerm, pageVehicles, loading,
                       pageError, noResultsMessage, routeVrm, detailVehicle>>

\* VehicleDetailPage.handleBackClick (or the browser's back): navigate('/')
\* unmounts the page and mounts a fresh HomePage; what the calls left in
\* flight bring back is set on an unmounted component and changes nothing
handleBackClick ==
    /\ page = "detail"
    /\ page' = "home"
    /\ searchTerm' = <<>>
    /\ pageVehicles' = <<>>
    /\ loading' = FALSE
    /\ pageError' = NoMessage
    /\ noResultsMessage' = NoMessage
    /\ routeVrm' = <<>>
    /\ detailVehicle' = <<>>
    /\ detailLoading' = FALSE
    /\ detailError' = NoMessage
    /\ calls' = <<>>
    /\ outcome' = "none"
    /\ lastEvent' = "back"
    /\ UNCHANGED serverVars

NextApp ==
    \/ handleInputChange /\ UNCHANGED <<serverVars, queueVars, page>>
    \/ handleSubmit /\ UNCHANGED <<serverVars, queueVars, page>>
    \/ SearchResolved /\ UNCHANGED <<queueVars, page>>
    \/ SearchRejected /\ UNCHANGED <<queueVars, page>>
    \/ handleViewAllVehicles /\ UNCHANGED <<serverVars, queueVars, page>>
    \/ ViewAllResolved /\ UNCHANGED <<queueVars, page>>
    \/ ViewAllRejected /\ UNCHANGED <<queueVars, page>>
    \/ handleVehicleClick /\ UNCHANGED queueVars
    \/ OpenDetail /\ UNCHANGED queueVars
    \/ RouteChange /\ UNCHANGED queueVars
    \/ FetchResolved /\ UNCHANGED queueVars
    \/ FetchRejected /\ UNCHANGED queueVars
    \/ handleBackClick /\ UNCHANGED queueVars

SpecApp == InitApp /\ [][NextApp]_vars

----------------------------------------------------------------------------
(* Vocabulary of the properties                                            *)

\* the backing collection: the records of the file, none when it cannot be
\* read or parsed
Collection == IF dataFile.kind = "array" THEN dataFile.items ELSE <<>>

\* the file holds a collection, or loading it fails
HoldsCollection == dataFile.kind = "array" \/ LoadFails(dataFile)

\* every record of the collection has every property
StoreWellFormed ==
    HoldsCollection /\ \A i \in 1..Len(Collection) : WellFormed(Collection[i])

\* the two strings differ at most in the case of their letters
SameModuloCase(a, b) ==
    /\ Len(a) = Len(b)
    /\ \A i \in 1..Len(a) : toLowerChar(a[i]) = toLowerChar(b[i])

Returned(v) == \E j \in 1..Len(res.data) : res.data[j] = v

Searched == req.op = "search"

Accepted == req.arg.present /\ req.arg.str # <<>>

\* an integer literal: optional sign, then decimal digits only
IsIntegerLiteral(s) ==
    LET t    == trim(s)
        body == IF t # <<>> /\ IsSign(Head(t)) THEN Tail(t) ELSE t
    IN  body # <<>> /\ AllDigitsOf(body, DecDigits)

IntegerValue(s) ==
    LET t    == trim(s)
        body == IF IsSign(Head(t)) THEN Tail(t) ELSE t
        mag  == DigitsValue(body, 10)
    IN  IF Head(t) = "-" THEN 0 - mag ELSE mag

\* 10^n
RECURSIVE Pow10(_)
Pow10(n) == IF n = 0 THEN 1 ELSE 10 * Pow10(n - 1)

\* The number a decimal or radix-prefixed literal denotes, as <<m, d>> for
\* m / d: mantissa digits scaled by the exponent less the fraction length
LiteralValue(s) ==
    LET t     == trim(s)
        neg   == Head(t) = "-"
        body  == IF IsSign(Head(t)) THEN Tail(t) ELSE t
        radix == IF Len(t) > 1 /\ t[1] = "0"
                 THEN (CASE t[2] \in {"x", "X"} -> 16 [] t[2] \in {"o", "O"} -> 8
                         [] t[2] \in {"b", "B"} -> 2 [] OTHER -> 10)
                 ELSE 10
        ip    == DigitPrefix(body, DecDigits)
        r1    == DropN(body, Len(ip))
        dot   == r1 # <<>> /\ Head(r1) = "."
        r2    == IF dot THEN Tail(r1) ELSE r1
        fp    == IF dot THEN DigitPrefix(r2, DecDigits) ELSE <<>>
        r3    == DropN(r2, Len(fp))
        eneg  == Len(r3) > 1 /\ r3[2] = "-"
        edig  == IF r3 = <<>> THEN <<>>
                 ELSE IF IsSign(r3[2]) THEN DropN(r3, 2) ELSE DropN(r3, 1)
        e     == IF eneg THEN 0 - DigitsValue(edig, 10) ELSE DigitsValue(edig, 10)
        k     == e - Len(fp)
        m     == DigitsValue(ip \o fp, 10)
        sm    == IF neg THEN 0 - m ELSE m
    IN  IF radix # 10 THEN <<DigitsValue(DropN(t, 2), radix), 1>>
        ELSE IF k >= 0 THEN <<sm * Pow10(k), 1>>
        ELSE <<sm, Pow10(0 - k)>>

\* the query is a numeric literal whose value is a whole number
DenotesInteger(s) ==
    /\ trim(s) # <<>>
    /\ ~isNaN(s)
    /\ trim(s) \notin {InfinityLiteral, <<"+">> \o InfinityLiteral, <<"-">> \o InfinityLiteral}
    /\ LiteralValue(s)[1] % LiteralValue(s)[2] = 0

DenotedInteger(s) == LiteralValue(s)[1] \div LiteralValue(s)[2]

\* case-insensitive containment of q in one of the six text properties
TextMatch(v, q) ==
    \E i \in 1..Len(TextFields) :
        /\ TextFields[i] \notin v.absent
        /\ includes(toLowerCase(v[TextFields[i]]), toLowerCase(q))

\* the numeric predicates (exact Price, exact Mileage, Price within 1000)
\* for the integer n
NumericMatch(v, n) ==
    \/ v.Price = n
    \/ v.Mileage = n
    \/ Abs(v.Price - n) <= 1000

\* the date is compared as raw text with the query the engine receives
DateMatch(v, q) == includes(v.DateOfRegistration, toLowerCase(q))

\* The ten match predicates of the Query Engine.  Narrowly, an integer
\* query is an integer literal; broadly, any numeric literal that denotes a
\* whole number ("1e3" is 1000, "12.0" is 12).
MatchesNarrowly(v, q) ==
    \/ TextMatch(v, q)
    \/ IsIntegerLiteral(q) /\ NumericMatch(v, IntegerValue(q))
    \/ DateMatch(v, q)

MatchesBroadly(v, q) ==
    \/ TextMatch(v, q)
    \/ DenotesInteger(q) /\ NumericMatch(v, DenotedInteger(q))
    \/ DateMatch(v, q)

----------------------------------------------------------------------------
(* C1: for every collection and every accepted query, a vehicle is in the  *)
(* returned data iff it satisfies at least one of the ten match            *)
(* predicates; a vehicle satisfying none is never returned.  Stated in the *)
(* reading most favourable to the code: a returned vehicle matches under   *)
(* the broad reading of "integer query", and a vehicle that matches under  *)
(* the narrow reading is returned.                                         *)
C1_ReturnedIffMatches ==
    (Searched /\ Accepted /\ StoreWellFormed) =>
        \A i \in 1..Len(Collection) :
            /\ Returned(Collection[i]) => MatchesBroadly(Collection[i], req.arg.str)
            /\ MatchesNarrowly(Collection[i], req.arg.str) => Returned(Collection[i])

(* C2: a missing, empty or whitespace-only query is answered 400 with      *)
(* success false, and the collection is not read or filtered.              *)
C2_BlankQueryRejected ==
    (Searched /\ (~req.arg.present \/ trim(req.arg.str) = <<>>)) =>
        /\ res.status = 400
        /\ ~res.success
        /\ "data" \notin res.keys

(* C3: search is case-insensitive: two queries that differ only in letter *)
(* case get the same status and the same vehicles, whichever property the  *)
(* match is on.                                                            *)
C3_SearchCaseInsensitive ==
    (Searched /\ req.arg.present) =>
        \A q2 \in Queries :
            SameModuloCase(q2, req.arg.str) =>
                LET other == SearchResponse(dataFile, Query(TRUE, q2))
                IN  other.status = res.status /\ other.data = res.data

\* "BMW" is searched, finds a vehicle, and a differently cased query exists
C3_Witness ==
    /\ Searched
    /\ req.arg.str = <<"B", "M", "W">>
    /\ res.status = 200
    /\ \E q2 \in Queries : q2 # req.arg.str /\ SameModuloCase(q2, req.arg.str)

(* C4: lookup by VRM is case-insensitive and round-trips: identifiers that *)
(* differ only in letter case get the same response, and a returned record *)
(* is the first record of the collection whose VRM equals the identifier   *)
(* modulo case.                                                            *)
C4_LookupCaseInsensitive ==
    req.op = "lookup" =>
        /\ \A id2 \in Identifiers :
               SameModuloCase(id2, req.arg.str) =>
                   LookupResponse(dataFile, id2) = res
        /\ res.status = 200 =>
               /\ res.dataKind = "object"
               /\ Len(res.data) = 1
               /\ \E i \in 1..Len(Collection) :
                      /\ res.data[1] = Collection[i]
                      /\ "VRM" \notin Collection[i].absent
                      /\ SameModuloCase(Collection[i].VRM, req.arg.str)
                      /\ \A j \in 1..(i - 1) :
                             ~SameModuloCase(Collection[j].VRM, req.arg.str)

\* a record is returned whose VRM is spelled in another case than the
\* requested identifier
C4_Witness ==
    /\ req.op = "lookup"
    /\ res.status = 200
    /\ res.data[1].VRM # req.arg.str

(* C5: for an integer query q, an answered search returns every vehicle    *)
(* with |Price - q| <= 1000, and a returned vehicle with |Price - q| >     *)
(* 1000 matches on another predicate (text, Mileage or date); Price 12995  *)
(* is returned for "12000".                                                *)
C5_FuzzyPrice ==
    (Searched /\ Accepted /\ IsIntegerLiteral(req.arg.str) /\ res.status # 500) =>
        LET q == IntegerValue(req.arg.str)
        IN  \A i \in 1..Len(Collection) :
                LET v == Collection[i]
                IN  /\ Abs(v.Price - q) <= 1000 => Returned(v)
                    /\ (Abs(v.Price - q) > 1000 /\ Returned(v)) =>
                           \/ TextMatch(v, req.arg.str)
                           \/ v.Mileage = q
                           \/ DateMatch(v, req.arg.str)

\* the vehicle priced 12995 is returned for the query "12000"
C5_Witness ==
    /\ Searched
    /\ req.arg.str = <<"1", "2", "0", "0", "0">>
    /\ \E j \in 1..Len(res.data) :
           res.data[j].Price = 12995 /\ ~TextMatch(res.data[j], req.arg.str)

\* no record of the collection has the VRM ident, modulo case
NoVehicleHasVrm(ident) ==
    \A i \in 1..Len(Collection) :
        "VRM" \in Collection[i].absent \/ ~SameModuloCase(Collection[i].VRM, ident)

\* the not-found answer of the search
IsSearchNotFound ==
    /\ res.status = 404
    /\ ~res.success
    /\ res.keys = {"success", "message", "data"}
    /\ res.dataKind = "array"
    /\ res.data = <<>>

\* the not-found answer of the lookup: one message, no record
IsLookupNotFound ==
    /\ res.status = 404
    /\ ~res.success
    /\ res.keys = {"success", "message"}
    /\ res.dataKind = "none"
    /\ res.message[1] = "No vehicle found with VRM: "

(* C6 as stated: for every identifier that is the VRM of no vehicle, the   *)
(* search answers 404 with an empty data list and the lookup answers 404   *)
(* with a single message and no record.                                    *)
C6_UnknownVrmNotFound ==
    (StoreWellFormed /\ Accepted /\ NoVehicleHasVrm(req.arg.str)) =>
        /\ Searched => IsSearchNotFound
        /\ req.op = "lookup" => IsLookupNotFound

(* C6 amended: for every identifier that is the VRM of no vehicle, the     *)
(* lookup answers 404 with a single message and no record; the search      *)
(* answers 404 with an empty data list when the identifier is moreover not *)
(* numeric and occurs, case-insensitively, in no text property and in no   *)
(* date of any vehicle.                                                    *)
C6_UnknownVrmNotFoundAmended ==
    (StoreWellFormed /\ Accepted /\ NoVehicleHasVrm(req.arg.str)) =>
        /\ req.op = "lookup" => IsLookupNotFound
        /\ ( /\ Searched
             /\ isNaN(toLowerCase(req.arg.str))
             /\ \A i \in 1..Len(Collection) :
                    /\ ~TextMatch(Collection[i], req.arg.str)
                    /\ ~DateMatch(Collection[i], req.arg.str) )
           => IsSearchNotFound

\* an identifier no vehicle of a non-empty collection has is looked up
C6_Witness ==
    /\ req.op = "lookup"
    /\ Len(Collection) > 0
    /\ StoreWellFormed
    /\ NoVehicleHasVrm(req.arg.str)
    /\ res.status = 404

C8_SearchTwoShapes ==
    /\ (Searched /\ Accepted /\ StoreWellFormed) =>
           LET someMatch ==
                   \E i \in 1..Len(Collection) :
                       FilterPredicate(Collection[i], toLowerCase(req.arg.str)) = "true"
           IN  IF someMatch
               THEN /\ res.status = 200
                    /\ res.success
                    /\ res.keys = {"success", "count", "data"}
                    /\ res.dataKind = "array"
                    /\ res.data # <<>>
                    /\ res.count = Len(res.data)
               ELSE IsSearchNotFound
    /\ (Searched /\ res.success) => res.data # <<>>

\* an accepted search over a non-empty collection finds nothing
C8_Witness ==
    /\ Searched
    /\ Accepted
    /\ StoreWellFormed
    /\ Len(Collection) > 0
    /\ res.status = 404

\* r is s with some elements left out: a strictly increasing choice of
\* positions of s yields r
IsSubsequence(r, s) ==
    \E f \in [1..Len(r) -> 1..Len(s)] :
        /\ \A i \in 1..Len(r) : r[i] = s[f[i]]
        /\ \A i \in 1..Len(r) : \A j \in 1..Len(r) : i < j => f[i] < f[j]

(* C9: the search result is an order-preserving subsequence of the         *)
(* collection: every returned vehicle is a record of the collection, no    *)
(* record is returned twice, and the relative order is that of the         *)
(* collection.                                                             *)
C9_ResultIsSubsequence ==
    (Searched /\ res.status = 200) => IsSubsequence(res.data, Collection)

\* two different vehicles are returned
C9_Witness ==
    /\ Searched
    /\ res.status = 200
    /\ Len(res.data) >= 2
    /\ res.data[1] # res.data[2]

(* C10: when the backing file is missing, unreadable or corrupt, the store *)
(* loads as the empty sequence (the failure is logged, not raised) and     *)
(* every endpoint answers as over zero vehicles: the list 200 with count 0 *)
(* and no data, the lookup 404, the search 404 with empty data; none       *)
(* answers 500.                                                            *)
C10_LoadFailureIsEmpty ==
    LoadFails(dataFile) =>
        /\ getVehiclesData(dataFile).items = <<>>
        /\ res.status # 500
        /\ req.op = "list" =>
               /\ res.status = 200
               /\ res.count = 0
               /\ res.dataKind = "array"
               /\ res.data = <<>>
               /\ errLogged
               /\ res = ListResponse(File("array", <<>>))
        /\ req.op = "lookup" =>
               /\ IsLookupNotFound
               /\ errLogged
               /\ res = LookupResponse(File("array", <<>>), req.arg.str)
        /\ (Searched /\ Accepted) =>
               /\ IsSearchNotFound
               /\ errLogged
        /\ Searched => res = SearchResponse(File("array", <<>>), req.arg)

\* a search is answered over a corrupt file
C10_Witness ==
    /\ dataFile.kind = "corrupt"
    /\ Searched
    /\ Accepted
    /\ res.status = 404

----------------------------------------------------------------------------
\* the request met a failure: its body could not be parsed, or its route
\* handler threw (the store is no array, or a record lacks a property the
\* handler reads)
RequestFails ==
    LET vehicles == getVehiclesData(dataFile)
    IN  \/ req.op = "malformed"
        \/ req.op = "list" /\ vehicles.kind = "null"
        \/ /\ req.op = "lookup"
           /\ \/ vehicles.kind # "array"
              \/ find(vehicles.items, toUpperCase(req.arg.str), 1).outcome = "throw"
        \/ /\ Searched
           /\ Accepted
           /\ \/ vehicles.kind # "array"
              \/ FilterThrows(vehicles.items, toLowerCase(req.arg.str))

\* the server-error envelope {success: false, message, error}
IsServerErrorEnvelope ==
    /\ res.status = 500
    /\ ~res.success
    /\ res.keys = {"success", "message", "error"}

(* C11: every failure while serving a request (a record lacking a field,  *)
(* a malformed request payload) is answered with the 500 JSON envelope     *)
(* {success: false, message, error}; every request is answered and no      *)
(* failure reaches the client in another form.                             *)
C11_FailuresAnswered500 ==
    req.op # "none" =>
        /\ res.status # 0
        /\ RequestFails => IsServerErrorEnvelope

----------------------------------------------------------------------------
(* C12 *)

\* the response a request produces when it is the only request the server
\* ever receives
ResponseAlone(file, r) ==
    CASE r.op = "list"      -> ListResponse(file)
      [] r.op = "lookup"    -> LookupResponse(file, r.arg.str)
      [] r.op = "search"    -> SearchResponse(file, r.arg)
      [] r.op = "malformed" -> MalformedBodyResponse
      [] OTHER              -> NoResponse

\* C12: the server keeps no state between requests and never writes the
\* data file, so concurrent requests cannot race: whatever else has been
\* accepted or served, in whatever order, every response is the one its
\* request produces when issued alone, and no step changes the file
C12_Stateless ==
    [][/\ dataFile' = dataFile
       /\ served' # served => res' = ResponseAlone(dataFile, req')]_vars

\* a search answered with matches after another request was served and
\* while a third one is still waiting
C12_Witness ==
    /\ served >= 2
    /\ pending # {}
    /\ Searched
    /\ res.status = 200
    /\ res.count > 0

----------------------------------------------------------------------------
(* C17: the numeric predicates apply only to a query that is an integer    *)
(* literal, and compare the vehicle with that integer: every vehicle       *)
(* returned for an accepted query matches it by text, by date, or, when    *)
(* the query is an integer literal, by Price or Mileage against its value; *)
(* for any other query no vehicle is returned on Price or Mileage.         *)
C17_NumericOnlyForIntegers ==
    (Searched /\ Accepted /\ StoreWellFormed) =>
        \A i \in 1..Len(Collection) :
            Returned(Collection[i]) =>
                \/ TextMatch(Collection[i], req.arg.str)
                \/ DateMatch(Collection[i], req.arg.str)
                \/ /\ IsIntegerLiteral(req.arg.str)
                   /\ NumericMatch(Collection[i], IntegerValue(req.arg.str))

----------------------------------------------------------------------------
(* What the pages render                                                   *)

\* HomePage: {error && ...}, {noResultsMessage && !loading && ...},
\* {loading && ...}, {!loading && vehicles.length > 0 && ...}
ErrorShown == page = "home" /\ pageError # NoMessage

NoResultsShown == page = "home" /\ noResultsMessage # NoMessage /\ ~loading

LoadingShown == page = "home" /\ loading

HomeRendered ==
    {x \in {"loading", "error", "empty", "results"} :
        \/ x = "loading" /\ LoadingShown
        \/ x = "error"   /\ ErrorShown
        \/ x = "empty"   /\ NoResultsShown
        \/ x = "results" /\ GridShown}

\* a request of the mounted HomePage has completed and none has started
\* since
HomeCompleted ==
    page = "home" /\ outcome \in {"ok", "notfound", "rejected", "servererror", "failed"}

(* C13: the home page is always in exactly one of idle, searching,         *)
(* results, empty or error: at most one of the loading indicator, the      *)
(* error message, the no-results message and the grid is rendered, and     *)
(* once a request has completed exactly one of results, empty or error is  *)
(* rendered.                                                               *)
C13_HomeOneState ==
    page = "home" =>
        /\ Cardinality(HomeRendered) <= 1
        /\ HomeCompleted =>
               /\ Cardinality(HomeRendered) = 1
               /\ "loading" \notin HomeRendered

----------------------------------------------------------------------------
\* VehicleDetailPage renders the first of: loading, error, not found, the
\* vehicle.  The API's "No vehicle found with VRM" message is rendered in
\* the error container; it is counted here as the not-found state.
DetailShown ==
    IF detailLoading THEN "loading"
    ELSE IF detailError # NoMessage
         THEN IF detailError[1] = "No vehicle found with VRM: "
              THEN "notfound" ELSE "error"
    ELSE IF detailVehicle = <<>> THEN "notfound"
    ELSE "found"

\* the state the fetch of the current identifier alone determines
DetailExpected ==
    CASE outcome = "ok"       -> "found"
      [] outcome = "notfound" -> "notfound"
      [] outcome \in {"servererror", "rejected", "failed"} -> "error"
      [] OTHER                -> "loading"

(* C14: on mount and on every change of the route identifier the detail    *)
(* page shows loading, and once the fetch of the current identifier has    *)
(* settled it shows found, not-found or error as that fetch alone          *)
(* determines: the vehicle of the current identifier when the API returned *)
(* it, never what an earlier identifier's fetch left behind.               *)
C14_DetailFollowsCurrentFetch ==
    page = "detail" =>
        /\ lastEvent \in {"click", "open", "route"} => DetailShown = "loading"
        /\ (outcome # "pending" /\ calls = <<>>) =>
               /\ DetailShown = DetailExpected
               /\ DetailShown = "found" =>
                      VrmEquals(detailVehicle, toUpperCase(routeVrm)) = "true"

----------------------------------------------------------------------------
(* C15: when a home-page search completes, the error message is shown iff  *)
(* the request failed (the call failed or the API answered with a server   *)
(* error) and the no-results message is shown iff the API reported that    *)
(* nothing matched.                                                        *)
C15_SearchOutcomeShown ==
    (page = "home" /\ lastEvent = "searchDone") =>
        /\ ErrorShown <=> outcome \in {"failed", "servererror"}
        /\ NoResultsShown <=> outcome = "notfound"

----------------------------------------------------------------------------
\* the loading flag of the mounted page
PageLoading == IF page = "home" THEN loading ELSE detailLoading

(* C16: on both pages the loading state ends exactly when the outstanding  *)
(* network call settles: the page is loading as long as a call of the page *)
(* is outstanding (nothing but the settling ends it) and is not loading    *)
(* once it has settled.                                                    *)
C16_LoadingUntilSettled == PageLoading <=> calls # <<>>

----------------------------------------------------------------------------
\* disabled={loading} on the search input, the search button and the
\* view-all button
ControlsDisabled == page = "home" /\ loading

(* C18: the home page never has more than one API request in flight, and   *)
(* while a search or view-all request is outstanding the search input, the *)
(* search button and the view-all button are disabled.                     *)
C18_OneRequestInFlight ==
    page = "home" =>
        /\ Len(calls) <= 1
        /\ calls # <<>> => ControlsDisabled

\* a search is outstanding after an earlier request of the page completed
C18_Witness ==
    /\ page = "home"
    /\ Len(calls) = 1
    /\ calls[1].kind = "search"
    /\ ControlsDisabled
    /\ req.op = "list"

----------------------------------------------------------------------------
(* C19: when the route identifier changes while the fetch for the previous *)
(* identifier is in flight, loading is not cleared while the fetch for the *)
(* current identifier is outstanding, and whatever the order of the two    *)
(* responses the vehicle finally shown for a current identifier the API    *)
(* found is the vehicle of that identifier.                                *)
C19_LatestIdentifierWins ==
    page = "detail" =>
        /\ outcome = "pending" => detailLoading
        /\ (calls = <<>> /\ outcome = "ok") =>
               /\ detailVehicle # <<>>
               /\ VrmEquals(detailVehicle, toUpperCase(routeVrm)) = "true"

----------------------------------------------------------------------------
(* C20: submitting an empty or whitespace-only term issues no network call *)
(* and does not enter the loading state; it sets the error message 'Please *)
(* enter a search term' and clears the results and the no-results message. *)
(* A submit that did start a search had a term with a non-blank character. *)
C20_BlankSubmit ==
    page = "home" =>
        /\ lastEvent = "blank" =>
               /\ calls = <<>>
               /\ ~loading
               /\ pageError = PleaseEnterTerm
               /\ pageVehicles = <<>>
               /\ noResultsMessage = NoMessage
        /\ lastEvent = "search" => trim(searchTerm) # <<>>
        /\ \A i \in 1..Len(calls) :
               calls[i].kind = "search" => trim(calls[i].arg) # <<>>

\* a whitespace-only term submitted while the grid of all vehicles, fetched
\* before, was on the page
C20_Witness ==
    /\ page = "home"
    /\ lastEvent = "blank"
    /\ searchTerm = <<" ">>
    /\ outcome = "ok"
    /\ req.op = "list"
    /\ Len(res.data) > 0
    /\ pageVehicles = <<>>

====
